---------------------------- MODULE Spec2Model ----------------------------
(***************************************************************************)
(* ducktrace (src/ducktrace.go): a run loads a configuration, ingests the  *)
(* lines of a log file into a table, and then, for every configured event, *)
(* reads the table back ordered by timestamp, collects the timestamps of   *)
(* the records matching the event's start and end patterns, pairs them by  *)
(* index and prints one duration per pair and their average.               *)
(*                                                                         *)
(* Instants and durations are counted in one abstract tick.  Go's          *)
(* time.Duration is a signed 64-bit count; here it is a signed             *)
(* DurationBits-bit count, and the instants a log line can carry span more *)
(* ticks than a duration can hold, as the years 0000..9999 that time.Parse *)
(* accepts span more than the 292 years an int64 of nanoseconds holds.     *)
(*                                                                         *)
(* The in-memory database, config.toml and sample.log are taken to be      *)
(* there and to work: the must(...) around them never fire.  Logging to    *)
(* stderr (logger, debugEnabled) changes no state and is left out.  The    *)
(* Instance lines and the Average line of one event are kept as one entry  *)
(* of stdout.                                                              *)
(***************************************************************************)
EXTENDS Integers, Sequences, FiniteSets

VARIABLES
    config,     \* the decoded config.toml (Config): LogFormat.Pattern and Events
    pc,         \* where main is: "start", "scan", "events", "done", "aborted"
    err,        \* what ended the run early: os.Exit(1) or the panic of must / MustCompile
    lines,      \* the lines scanner.Text() has returned so far
    store,      \* the rows of TABLE logs, in insertion order
    stdout,     \* what analyzeEvent has printed: a header and an outcome per event
    iterated,   \* the keys of config.Events the range loop has visited
    cur,        \* analyzeEvent's name in its last call ("none" before the first)
    rows,       \* the rows its query returned
    starts,     \* its starts slice
    ends        \* its ends slice

vars == <<config, pc, err, lines, store, stdout, iterated, cur, rows, starts, ends>>

-----------------------------------------------------------------------------
(* Bounds *)

MaxLines == 3          \* lines the scanner yields before the end of the file
DurationBits == 2      \* width of time.Duration in the model (64 in Go)

-----------------------------------------------------------------------------
(* Regular expressions.  A pattern is known by its text; what the regexp    *)
(* package does with it is tabulated for the patterns the model draws from. *)

BadRegex == "("                       \* a text regexp.MustCompile panics on

Compiles(re) == re # BadRegex

Messages == {"job triggered", "job completed", "triggered and completed"}

\* startR.MatchString(msg) / endR.MatchString(msg) for the literal patterns
MatchString(re, msg) ==
    CASE re = "triggered" -> msg \in {"job triggered", "triggered and completed"}
      [] re = "completed" -> msg \in {"job completed", "triggered and completed"}
      [] OTHER -> FALSE

\* capture groups of a line-format pattern (regexp.NumSubexp)
NumSubexp(pattern) ==
    CASE pattern = "P4" -> 4       \* ^(date) (time) \[(level)\] (message)$
      [] pattern = "P3" -> 3       \* ^(date) (time) \[(level)\] .+$
      [] OTHER -> 0

-----------------------------------------------------------------------------
(* Input: the configuration and the lines of the log file *)

EventNames == {"backup", "rollback"}

Forward  == [StartRegex |-> "triggered", EndRegex |-> "completed"]
Backward == [StartRegex |-> "completed", EndRegex |-> "triggered"]
BadEnd   == [StartRegex |-> "triggered", EndRegex |-> BadRegex]
BadStart == [StartRegex |-> BadRegex,    EndRegex |-> "completed"]

\* config.Events: a map from event names to patterns
EventMaps ==
    { [name \in {} |-> Forward],
      [name \in {"backup"} |-> Forward],
      [name \in {"rollback"} |-> BadEnd],
      [name \in EventNames |-> IF name = "backup" THEN Forward ELSE Backward],
      [name \in EventNames |-> IF name = "backup" THEN BadStart ELSE Forward] }

\* the decoded config.toml: every event map under the four-group pattern, and
\* one event map under each of the other line-format patterns
Configs ==
    [Pattern : {"P4"}, Events : EventMaps]
      \cup [Pattern : {"", BadRegex, "P3"},
            Events : {[name \in {"backup"} |-> Forward]}]

Dates  == {"d0"}
Clocks == {"t0", "t1", "t2", "t?"}      \* "t?" is no time of day
Levels == {"INFO"}

OtherLine == [form |-> "other", date |-> "", time |-> "", level |-> "", message |-> ""]

EntryLines == [form : {"entry"}, date : Dates, time : Clocks, level : Levels, message : Messages]

Lines == {OtherLine} \cup EntryLines

-----------------------------------------------------------------------------
(* time.Time and time.Duration *)

ValidDates  == Dates
ValidClocks == Clocks \ {"t?"}

\* every line of the model carries the same date
DayOf(dateStr)   == 0
ClockOf(timeStr) == CASE timeStr = "t0" -> 0 [] timeStr = "t1" -> 1 [] timeStr = "t2" -> 2 [] OTHER -> 0

DayTicks == Cardinality(ValidClocks)

\* time.Parse under the fixed layout: the error and the instant
ParseOk(dateStr, timeStr) == dateStr \in ValidDates /\ timeStr \in ValidClocks

ParseInstant(dateStr, timeStr) == DayOf(dateStr) * DayTicks + ClockOf(timeStr)

RECURSIVE Pow2(_)
Pow2(n) == IF n = 0 THEN 1 ELSE 2 * Pow2(n - 1)

MaxDuration == Pow2(DurationBits - 1) - 1
MinDuration == 0 - Pow2(DurationBits - 1)

\* faulty variant of TimeSub: the distance between the instants, never negative
TimeSubAbs(t, u) ==
    IF t - u > MaxDuration \/ u - t > MaxDuration THEN MaxDuration
    ELSE IF t < u THEN u - t
    ELSE t - u

\* t.Sub(u): the difference, or the nearest duration when it is out of range
TimeSub(t, u) ==
    IF t - u > MaxDuration THEN MaxDuration
    ELSE IF t - u < MinDuration THEN MinDuration
    ELSE t - u

\* totalDuration += d on a signed DurationBits-bit integer
AddDuration(total, d) ==
    ((total + d - MinDuration) % Pow2(DurationBits)) + MinDuration

\* faulty variant of Quo: the quotient rounded down
QuoFloor(a, b) == a \div b

\* Go's integer division truncates toward zero (b > 0 here)
Quo(a, b) == IF a >= 0 THEN a \div b ELSE 0 - ((0 - a) \div b)

-----------------------------------------------------------------------------
(* main: ingestion *)

MinMatches == 5        \* len(matches) < 5: the whole match and four groups

\* lineRegex.FindStringSubmatch(line): <<>> is the nil slice
FindStringSubmatch(pattern, line) ==
    IF line.form = "other" THEN <<>>
    ELSE SubSeq(<<"whole", line.date, line.time, line.level, line.message>>,
                1, NumSubexp(pattern) + 1)

\* faulty variant of ScanStep: a date/time that does not parse skips the line
ScanStepSkipBadStamp(pattern, line) ==
    LET matches == FindStringSubmatch(pattern, line)
    IN  IF matches = <<>> THEN [do |-> "continue"]
        ELSE IF Len(matches) < MinMatches THEN [do |-> "continue"]
        ELSE IF ~ParseOk(matches[2], matches[3]) THEN [do |-> "continue"]
        ELSE [do |-> "insert",
              rec |-> [timestamp |-> ParseInstant(matches[2], matches[3]),
                       level |-> matches[4],
                       message |-> matches[5]]]

\* faulty variant of ScanStep: a line that does not match ends the run
ScanStepStrict(pattern, line) ==
    LET matches == FindStringSubmatch(pattern, line)
    IN  IF matches = <<>> THEN [do |-> "panic"]
        ELSE IF Len(matches) < MinMatches THEN [do |-> "continue"]
        ELSE IF ~ParseOk(matches[2], matches[3]) THEN [do |-> "panic"]
        ELSE [do |-> "insert",
              rec |-> [timestamp |-> ParseInstant(matches[2], matches[3]),
                       level |-> matches[4],
                       message |-> matches[5]]]

\* one iteration of the scanner loop: what it does with the line
ScanStep(pattern, line) ==
    LET matches == FindStringSubmatch(pattern, line)
    IN  IF matches = <<>> THEN [do |-> "continue"]
        ELSE IF Len(matches) < MinMatches THEN [do |-> "continue"]
        ELSE IF ~ParseOk(matches[2], matches[3]) THEN [do |-> "panic"]
        ELSE [do |-> "insert",
              rec |-> [timestamp |-> ParseInstant(matches[2], matches[3]),
                       level |-> matches[4],
                       message |-> matches[5]]]

-----------------------------------------------------------------------------
(* analyzeEvent *)

RemoveAt(table, i) == SubSeq(table, 1, i - 1) \o SubSeq(table, i + 1, Len(table))

Row(rec) == [timestamp |-> rec.timestamp, message |-> rec.message]

\* faulty variant of OrderedRows: the query without its ORDER BY clause
UnorderedRows(table) == { [i \in 1..Len(table) |-> Row(table[i])] }

\* faulty variant of OrderedRows: ORDER BY timestamp DESC
RECURSIVE DescendingRows(_)
DescendingRows(table) ==
    IF table = <<>> THEN {<<>>}
    ELSE UNION { { <<Row(table[i])>> \o rest : rest \in DescendingRows(RemoveAt(table, i)) } :
                 i \in { k \in 1..Len(table) :
                           \A j \in 1..Len(table) :
                              table[k].timestamp >= table[j].timestamp } }

\* SELECT timestamp, message FROM logs ORDER BY timestamp: every arrangement
\* of the table in non-decreasing timestamp order (ties in any order)
RECURSIVE OrderedRows(_)
OrderedRows(table) ==
    IF table = <<>> THEN {<<>>}
    ELSE UNION { { <<Row(table[i])>> \o rest : rest \in OrderedRows(RemoveAt(table, i)) } :
                 i \in { k \in 1..Len(table) :
                           \A j \in 1..Len(table) :
                              table[k].timestamp <= table[j].timestamp } }

\* the timestamps appended while traversing rs, for one compiled pattern
RECURSIVE Collect(_, _)
Collect(re, rs) ==
    IF rs = <<>> THEN <<>>
    ELSE IF MatchString(re, Head(rs).message)
         THEN <<Head(rs).timestamp>> \o Collect(re, Tail(rs))
         ELSE Collect(re, Tail(rs))

\* faulty variant of NoMatches: unequal counts are reported as no matches too
NoMatchesUnlessBalanced(ss, es) == Len(ss) = 0 \/ Len(es) = 0 \/ Len(ss) # Len(es)

\* len(starts) == 0 || len(ends) == 0
NoMatches(ss, es) == Len(ss) = 0 \/ Len(es) = 0

MinLen(ss, es) == IF Len(es) < Len(ss) THEN Len(es) ELSE Len(ss)

\* faulty variant of Instances: the i-th end is paired with the i-th latest start
InstancesFromLatest(ss, es) ==
    [i \in 1..MinLen(ss, es) |-> TimeSub(es[i], ss[Len(ss) - i + 1])]

\* the durations printed by the loop over i < minLen
Instances(ss, es) == [i \in 1..MinLen(ss, es) |-> TimeSub(es[i], ss[i])]

RECURSIVE TotalDuration(_)
TotalDuration(ds) ==
    IF ds = <<>> THEN 0
    ELSE AddDuration(TotalDuration(SubSeq(ds, 1, Len(ds) - 1)), ds[Len(ds)])

\* what analyzeEvent prints after the header
Outcome(name, ss, es) ==
    IF NoMatches(ss, es)
    THEN [event |-> name, kind |-> "NoMatches", instances |-> <<>>, average |-> 0]
    ELSE [event |-> name, kind |-> "Result",
          instances |-> Instances(ss, es),
          average |-> Quo(TotalDuration(Instances(ss, es)), MinLen(ss, es))]

Header(name) == [event |-> name, kind |-> "Header", instances |-> <<>>, average |-> 0]

-----------------------------------------------------------------------------
(* The run *)

Init ==
    /\ config \in Configs
    /\ pc = "start"
    /\ err = "none"
    /\ lines = <<>>
    /\ store = <<>>
    /\ stdout = <<>>
    /\ iterated = {}
    /\ cur = "none"
    /\ rows = <<>>
    /\ starts = <<>>
    /\ ends = <<>>

\* main, up to the compiled line regex
Startup ==
    /\ pc = "start"
    /\ IF config.Pattern = ""
       THEN pc' = "aborted" /\ err' = "config_pattern_empty"
       ELSE IF ~Compiles(config.Pattern)
       THEN pc' = "aborted" /\ err' = "line_regex"
       ELSE pc' = "scan" /\ err' = err
    /\ UNCHANGED <<config, lines, store, stdout, iterated, cur, rows, starts, ends>>

\* one iteration of for scanner.Scan()
ReadLine ==
    /\ pc = "scan"
    /\ Len(lines) < MaxLines
    /\ \E line \in Lines :
         LET step == ScanStep(config.Pattern, line)
         IN  /\ lines' = Append(lines, line)
             /\ CASE step.do = "continue" ->
                       pc' = pc /\ err' = err /\ store' = store
                  [] step.do = "panic" ->
                       pc' = "aborted" /\ err' = "timestamp" /\ store' = store
                  [] step.do = "insert" ->
                       pc' = pc /\ err' = err /\ store' = Append(store, step.rec)
    /\ UNCHANGED <<config, stdout, iterated, cur, rows, starts, ends>>

\* scanner.Scan() returns false
EndOfFile ==
    /\ pc = "scan"
    /\ pc' = "events"
    /\ UNCHANGED <<config, err, lines, store, stdout, iterated, cur, rows, starts, ends>>

\* one iteration of for name, event := range config.Events, in any order
AnalyzeEvent(name) ==
    /\ pc = "events"
    /\ name \in DOMAIN config.Events
    /\ name \notin iterated
    /\ \E rs \in OrderedRows(store) :
         LET event == config.Events[name]
             ok == Compiles(event.StartRegex) /\ Compiles(event.EndRegex)
             ss == IF ok THEN Collect(event.StartRegex, rs) ELSE <<>>
             es == IF ok THEN Collect(event.EndRegex, rs) ELSE <<>>
         IN  /\ rows' = rs
             /\ starts' = ss
             /\ ends' = es
             /\ IF ok
                THEN /\ stdout' = stdout \o <<Header(name), Outcome(name, ss, es)>>
                     /\ pc' = pc
                     /\ err' = err
                ELSE /\ stdout' = Append(stdout, Header(name))
                     /\ pc' = "aborted"
                     /\ err' = "event_regex"
    /\ iterated' = iterated \cup {name}
    /\ cur' = name
    /\ UNCHANGED <<config, lines, store>>

\* the range loop is over: main returns
Return ==
    /\ pc = "events"
    /\ iterated = DOMAIN config.Events
    /\ pc' = "done"
    /\ UNCHANGED <<config, err, lines, store, stdout, iterated, cur, rows, starts, ends>>

Next ==
    \/ Startup
    \/ ReadLine
    \/ EndOfFile
    \/ \E name \in EventNames : AnalyzeEvent(name)
    \/ Return

Spec == Init /\ [][Next]_vars

-----------------------------------------------------------------------------
(* Vocabulary of the properties: the input as read, classified by what the  *)
(* line-format pattern and the layout make of each line                     *)

Matched(line) == line.form = "entry"

\* the line matches, with at least four groups, and its date and time parse
WellFormed(line) ==
    /\ Matched(line)
    /\ NumSubexp(config.Pattern) >= 4
    /\ line.date \in ValidDates
    /\ line.time \in ValidClocks

\* the line does not match, or matches with fewer than four groups
Skippable(line) == ~Matched(line) \/ NumSubexp(config.Pattern) < 4

\* the line matches with at least four groups, and its date/time do not parse
BadStamp(line) == ~Skippable(line) /\ ~WellFormed(line)

WellFormedLines == { i \in DOMAIN lines : WellFormed(lines[i]) }

RecordOf(line) ==
    [timestamp |-> ParseInstant(line.date, line.time),
     level |-> line.level, message |-> line.message]

\* the records of the well-formed lines of ls, in the order of ls
RECURSIVE RecordsOf(_)
RecordsOf(ls) ==
    IF ls = <<>> THEN <<>>
    ELSE IF WellFormed(Head(ls)) THEN <<RecordOf(Head(ls))>> \o RecordsOf(Tail(ls))
    ELSE RecordsOf(Tail(ls))

\* the well-formed lines whose message a pattern matches
Hits(re) == { i \in WellFormedLines : MatchString(re, lines[i].message) }

InstantAt(i) == ParseInstant(lines[i].date, lines[i].time)

\* the instants of a set of lines in non-decreasing order: a function of the
\* multiset of instants only
RECURSIVE Ascending(_)
Ascending(I) ==
    IF I = {} THEN <<>>
    ELSE LET i == CHOOSE k \in I : \A j \in I : InstantAt(k) <= InstantAt(j)
         IN  <<InstantAt(i)>> \o Ascending(I \ {i})

IsAscending(ts) == \A i, j \in DOMAIN ts : i < j => ts[i] <= ts[j]

RECURSIVE Sum(_)
Sum(ds) == IF ds = <<>> THEN 0 ELSE Head(ds) + Sum(Tail(ds))

\* the positions of stdout holding an event's outcome
OutcomesOf(name) ==
    { i \in DOMAIN stdout : stdout[i].event = name /\ stdout[i].kind # "Header" }

Results == { i \in DOMAIN stdout : stdout[i].kind = "Result" }

\* the last call of analyzeEvent got past the compilation of its patterns
Collected == cur # "none" /\ err # "event_regex"

LastOut == stdout[Len(stdout)]

\* a difference of instants as the nearest duration
Saturated(x) ==
    IF x > MaxDuration THEN MaxDuration
    ELSE IF x < MinDuration THEN MinDuration
    ELSE x

\* an integer as the duration it is congruent to modulo 2^DurationBits
Wrapped(x) == ((x - MinDuration) % Pow2(DurationBits)) + MinDuration

PairCount == IF Len(ends) < Len(starts) THEN Len(ends) ELSE Len(starts)

-----------------------------------------------------------------------------
(* Properties *)

\* C1: when analyzeEvent has collected non-empty starts and ends, it prints
\* exactly min(len(starts), len(ends)) instances, and instance i is the
\* difference ends[i] - starts[i] of the i-th end and the i-th start.
C1_PositionalSubtraction ==
    (Collected /\ starts # <<>> /\ ends # <<>>) =>
        /\ LastOut.kind = "Result"
        /\ LastOut.event = cur
        /\ Len(LastOut.instances) = PairCount
        /\ \A i \in 1..PairCount : LastOut.instances[i] = ends[i] - starts[i]

\* C1, amended: as above, with instance i the difference ends[i] - starts[i]
\* when a duration can hold it, and the largest (smallest) duration when the
\* difference is above (below) the range of durations.
C1_PositionalSaturatedSubtraction ==
    (Collected /\ starts # <<>> /\ ends # <<>>) =>
        /\ LastOut.kind = "Result"
        /\ LastOut.event = cur
        /\ Len(LastOut.instances) = PairCount
        /\ \A i \in 1..PairCount :
             LastOut.instances[i] = Saturated(ends[i] - starts[i])

C1_Witness ==
    /\ Collected
    /\ Len(ends) = 1
    /\ Len(starts) = 2
    /\ starts[1] < starts[2]
    /\ LastOut.kind = "Result"
    /\ Len(LastOut.instances) = 1
    /\ ends[1] - starts[1] > MaxDuration

\* C2: an event's outcome is NoMatches exactly when no ingested record matches
\* its start pattern or none matches its end pattern, whatever the other side
\* holds; a NoMatches outcome carries no instance.
C2_NoMatchesIffEmptySide ==
    /\ Collected => OutcomesOf(cur) # {}
    /\ \A name \in DOMAIN config.Events : \A i \in OutcomesOf(name) :
         /\ stdout[i].kind = "NoMatches" <=>
               (Hits(config.Events[name].StartRegex) = {}
                  \/ Hits(config.Events[name].EndRegex) = {})
         /\ stdout[i].kind = "NoMatches" => stdout[i].instances = <<>>

C2_Witness ==
    \E name \in DOMAIN config.Events : \E i \in OutcomesOf(name) :
        /\ stdout[i].kind = "NoMatches"
        /\ Cardinality(Hits(config.Events[name].StartRegex)) >= 2
        /\ Hits(config.Events[name].EndRegex) = {}

\* C3: the average of a Result is the sum of its instances divided by their
\* number n > 0, as an integer quotient (rounded toward zero) of the signed sum.
C3_AverageIsSumOverCount ==
    \A i \in Results :
        LET n == Len(stdout[i].instances)
            s == Sum(stdout[i].instances)
            r == s - n * stdout[i].average
        IN  /\ n > 0
            /\ s >= 0 => (0 <= r /\ r < n)
            /\ s < 0 => (0 - n < r /\ r <= 0)

\* C3, amended: the average of a Result is the integer quotient, rounded
\* toward zero, of the total by the number n > 0 of instances, where the total
\* is the sum of the instances in the signed fixed-width arithmetic of
\* durations: the sum itself when a duration can hold it, wrapped otherwise.
C3_AverageIsWrappedSumOverCount ==
    \A i \in Results :
        LET n == Len(stdout[i].instances)
            s == Wrapped(Sum(stdout[i].instances))
            r == s - n * stdout[i].average
        IN  /\ n > 0
            /\ s >= 0 => (0 <= r /\ r < n)
            /\ s < 0 => (0 - n < r /\ r <= 0)

C3_Witness ==
    \E i \in Results :
        LET n == Len(stdout[i].instances)
            s == Sum(stdout[i].instances)
        IN  /\ n >= 2
            /\ s < 0
            /\ s >= MinDuration
            /\ s % n # 0
            /\ stdout[i].average * n > s

\* C4: a run that ends in a configuration error (empty line-format pattern, a
\* line-format or event pattern that does not compile) has read no line,
\* inserted no record and printed no outcome.
C4_ConfigErrorBeforeIngestion ==
    err \in {"config_pattern_empty", "line_regex", "event_regex"} =>
        /\ lines = <<>>
        /\ store = <<>>
        /\ \A name \in DOMAIN config.Events : OutcomesOf(name) = {}

\* C5: a run that has completed ingestion ends with exactly one outcome
\* printed for every configured event.
C5_OneOutcomePerEvent ==
    (pc = "done" \/ (pc = "aborted" /\ err = "event_regex")) =>
        \A name \in DOMAIN config.Events : Cardinality(OutcomesOf(name)) = 1

\* C6: a line that matches with at least four groups and whose date/time do
\* not parse is the last line read: the run is aborted there, the store holds
\* only the records of the earlier lines, and no event is analyzed or printed.
C6_BadTimestampAborts ==
    \A i \in DOMAIN lines :
        BadStamp(lines[i]) =>
            /\ i = Len(lines)
            /\ pc = "aborted"
            /\ err = "timestamp"
            /\ store = RecordsOf(SubSeq(lines, 1, i - 1))
            /\ stdout = <<>>
            /\ iterated = {}

C6_Witness ==
    /\ Len(lines) = MaxLines
    /\ BadStamp(lines[Len(lines)])
    /\ Len(store) = MaxLines - 1

\* C7: the store holds exactly the records of the well-formed lines read, in
\* the order read; a skipped line (no match, or fewer than four groups) never
\* ends the run; and an event's starts and ends count well-formed lines only.
C7_SkippedLinesLeaveNoTrace ==
    /\ store = RecordsOf(lines)
    /\ (lines # <<>> /\ Skippable(lines[Len(lines)])) => err \in {"none", "event_regex"}
    /\ Collected =>
         /\ Len(starts) = Cardinality(Hits(config.Events[cur].StartRegex))
         /\ Len(ends) = Cardinality(Hits(config.Events[cur].EndRegex))

C7_Witness ==
    /\ pc = "done"
    /\ Len(lines) = MaxLines
    /\ WellFormed(lines[1])
    /\ Skippable(lines[2])
    /\ WellFormed(lines[Len(lines)])
    /\ Len(store) = MaxLines - 1
    /\ Results # {}

\* C8: whatever the order of insertion, the rows analyzeEvent traverses are in
\* non-decreasing timestamp order, and so are its starts and its ends.
C8_TraversalAscending ==
    /\ IsAscending([i \in DOMAIN rows |-> rows[i].timestamp])
    /\ IsAscending(starts)
    /\ IsAscending(ends)
    /\ cur # "none" => Len(rows) = Len(store)

C8_Witness ==
    /\ Collected
    /\ \E i, j \in DOMAIN store : i < j /\ store[i].timestamp > store[j].timestamp
    /\ Len(starts) >= 2
    /\ starts[1] < starts[Len(starts)]
    /\ ends # <<>>

\* C9: when the i-th end is earlier than the i-th start, instance i is printed
\* all the same and is negative (the difference, or the least duration when
\* the difference is below it), the average is printed, and the run goes on.
C9_NegativeInstanceEmitted ==
    (Collected /\ starts # <<>> /\ ends # <<>>) =>
        /\ LastOut.kind = "Result"
        /\ LastOut.event = cur
        /\ Len(LastOut.instances) = PairCount
        /\ pc # "aborted"
        /\ \A i \in 1..PairCount :
             ends[i] < starts[i] =>
                /\ LastOut.instances[i] < 0
                /\ LastOut.instances[i] =
                     (IF ends[i] - starts[i] < MinDuration
                      THEN MinDuration ELSE ends[i] - starts[i])

C9_Witness ==
    /\ Collected
    /\ PairCount >= 1
    /\ ends[1] < starts[1]
    /\ LastOut.kind = "Result"
    /\ LastOut.instances[1] < 0

\* C10: every printed outcome is the one computed from the ascending instants
\* of the well-formed lines matching the start pattern and of those matching
\* the end pattern: it depends on the multiset of lines read, not on their
\* order nor on the order the query gives to equal timestamps.
C10_OutcomeOfMultiset ==
    \A name \in DOMAIN config.Events : \A i \in OutcomesOf(name) :
        stdout[i] = Outcome(name,
                            Ascending(Hits(config.Events[name].StartRegex)),
                            Ascending(Hits(config.Events[name].EndRegex)))

C10_Witness ==
    /\ Results # {}
    /\ \E i, j \in DOMAIN store : i < j /\ store[i].timestamp > store[j].timestamp
    /\ \E i, j \in DOMAIN store :
         /\ i < j
         /\ store[i].timestamp = store[j].timestamp
         /\ store[i].message # store[j].message

====
